---- MODULE Spec2Model ----
(***************************************************************************)
(* Subscription / quota state machine of the user portal backend.         *)
(*                                                                         *)
(* The billing ledger (tables user_subscriptions, feature_usage and        *)
(* subscription_plans) is the only shared state.  Every request is a       *)
(* process whose steps are the store calls of its handler, so that the     *)
(* interleavings of concurrent requests are those the deployment allows.   *)
(* Sources: src/app/userPortal/subscription/helpers.py and routes.py.      *)
(***************************************************************************)
EXTENDS Integers, Sequences, FiniteSets, TLC

VARIABLES
    subs,       \* table user_subscriptions: a set of rows
    usage,      \* table feature_usage: a set of rows
    today,      \* date.today(), as an integer yyyymmdd
    proc,       \* per request slot: the handler running in it and its locals
    budget,     \* requests that may still arrive
    faults,     \* store failures that may still happen
    hist        \* history of the run (observers only, never read by handlers)

vars == <<subs, usage, today, proc, budget, faults, hist>>

----------------------------------------------------------------------------
(* Bounds of the model *)

MaxRequests == 3
MaxFaults == 1
FreeLimit == 1
PaidLimit == 2
MaxSeqRequests == 4
MaxTokenLen == 5

(* Program constants *)

increment_by == 1
FREE_PLAN_ID == 1
paid_plan_id == 2

(* two request slots: every race of these handlers is between two requests *)
Procs == {1, 2}
uid == "u1"
feature_name == "resume"

----------------------------------------------------------------------------
(* Dates: datetime.date as the integer yyyymmdd; the store keeps the       *)
(* 'YYYY-MM-DD' text, modelled as the triple of its fields.                *)

MkDate(y, m, d) == y * 10000 + m * 100 + d
Year(dt) == dt \div 10000
Month(dt) == (dt \div 100) % 100
Day(dt) == dt % 100

IsLeap(y) == (y % 4 = 0 /\ y % 100 # 0) \/ y % 400 = 0

monthrange(y, m) ==
    IF m = 2 THEN (IF IsLeap(y) THEN 29 ELSE 28)
    ELSE IF m \in {4, 6, 9, 11} THEN 30 ELSE 31

str(dt) == <<Year(dt), Month(dt), Day(dt)>>
strptime(s) == MkDate(s[1], s[2], s[3])

AddOneDay(dt) ==
    IF Day(dt) < monthrange(Year(dt), Month(dt)) THEN dt + 1
    ELSE IF Month(dt) < 12 THEN MkDate(Year(dt), Month(dt) + 1, 1)
    ELSE MkDate(Year(dt) + 1, 1, 1)

get_first_day_of_month(dt) == MkDate(Year(dt), Month(dt), 1)

get_last_day_of_month(dt) ==
    MkDate(Year(dt), Month(dt), monthrange(Year(dt), Month(dt)))

get_next_period(current_period_end) ==
    LET next_period_start == get_first_day_of_month(AddOneDay(current_period_end))
    IN  <<next_period_start, get_last_day_of_month(next_period_start)>>

(* The days the clock can show. *)
Days == { MkDate(2024, 1, 31), MkDate(2024, 2, 29), MkDate(2024, 3, 1) }

----------------------------------------------------------------------------
(* The billing ledger store *)

NoRow == [id |-> 0]

(* subscription_plans: seeded catalog, never written by request traffic *)
Plans ==
    { [id |-> FREE_PLAN_ID, resume_limit_per_month |-> FreeLimit],
      [id |-> paid_plan_id, resume_limit_per_month |-> PaidLimit] }

(* .maybe_single(): the row, None when there is none; more than one row is
   an APIError, which callers see as "multi" *)
maybe_single(S) ==
    IF S = {} THEN NoRow
    ELSE IF Cardinality(S) = 1 THEN CHOOSE r \in S : TRUE
    ELSE [id |-> -1]

IsRow(r) == r.id > 0

(* what .maybe_single().execute() hands back when no row matches depends on
   the client library: a response whose data is None (what helpers.py 150
   expects), or no response object at all (what helpers.py 145 and routes.py
   40 guard against), in which case reading .data raises *)
NoRowResults == {"data_none", "no_response"}

SubsOfUser(u) == { r \in subs : r.user_id = u }

UsageOf(u, ps, pe) ==
    { r \in usage : r.user_id = u /\ r.period_start = ps /\ r.period_end = pe }

NextId(T) == Cardinality(T) + 1

(* unique key user_subscriptions(user_id): the key the upserts name in
   on_conflict='user_id'; a plain insert of a second row for the user is
   refused by the store with an APIError *)
SubKeyNeverTaken(u) == FALSE

SubKeyTaken(u) == \E r \in subs : r.user_id = u

(* unique key feature_usage(user_id, period_start, period_end) *)
UsageKeyTaken(u, ps, pe) == UsageOf(u, ps, pe) # {}

NewSubRow(u, plan, status, cus, sid, ps, pe) ==
    [id |-> NextId(subs), user_id |-> u, plan_id |-> plan, status |-> status,
     stripe_customer_id |-> cus, stripe_subscription_id |-> sid,
     current_period_start |-> str(ps), current_period_end |-> str(pe)]

NewUsageRow(u, plan, ps, pe, n) ==
    [id |-> NextId(usage), user_id |-> u, plan_id |-> plan,
     period_start |-> ps, period_end |-> pe, resume_count |-> n]

----------------------------------------------------------------------------
(* Request slots *)

NoResp == [status |-> 0, by |-> "none", limit |-> 0, usage |-> 0]

(* a response produced by a handler's own return statement *)
Resp(status, by) == [status |-> status, by |-> by, limit |-> 0, usage |-> 0]

NoEvent == [type |-> "none"]

(* request.headers.get("Authorization", ""): no such header *)
NoHeader == [scheme |-> "none", token |-> <<>>]

(* stripe.Subscription.retrieve raised, or was not called *)
NoStripeSub == [retrieved |-> FALSE]

Idle ==
    [kind |-> "none", pc |-> "idle", sub |-> NoRow, plan |-> NoRow,
     urec |-> NoRow, code |-> 0, invoked |-> FALSE, resp |-> NoResp,
     ev |-> NoEvent, sig_ok |-> TRUE, ps |-> 0, pe |-> 0,
     stripe_sub |-> NoStripeSub, auth |-> NoHeader]

Set(p, r) == proc' = [proc EXCEPT ![p] = r]

(* the handler returns: the slot keeps the response and what decided it *)
Done(p, r) ==
    Set(p, [Idle EXCEPT !.kind = proc[p].kind, !.pc = "done", !.resp = r,
                        !.invoked = proc[p].invoked, !.plan = proc[p].plan,
                        !.urec = proc[p].urec])

----------------------------------------------------------------------------
(* check_and_use_feature: the decorator around a metered route *)

current_usage(urec) == urec.resume_count

plan_limit(plan) == plan.resume_limit_per_month

QuotaExceededOffByOne(cur, inc, limit) == cur > limit

QuotaExceeded(cur, inc, limit) == cur + inc > limit

QuotaDenied(plan, urec) ==
    [status |-> 429, by |-> "gate", limit |-> plan_limit(plan),
     usage |-> current_usage(urec)]

QuotaTestBySnapshot(p, urec) ==
    LET snap == CHOOSE pl \in Plans : pl.id = urec.plan_id
    IN  IF QuotaExceeded(current_usage(urec), increment_by, plan_limit(snap))
        THEN Set(p, [Idle EXCEPT !.kind = "gate", !.plan = snap,
                                 !.urec = urec, !.pc = "done",
                                 !.resp = QuotaDenied(snap, urec)])
        ELSE Set(p, [proc[p] EXCEPT !.urec = urec, !.pc = "body"])

(* Step 5, reached once usage_record is known *)
QuotaTest(p, urec) ==
    IF QuotaExceeded(current_usage(urec), increment_by, plan_limit(proc[p].plan))
    THEN Set(p, [Idle EXCEPT !.kind = "gate", !.plan = proc[p].plan,
                             !.urec = urec, !.pc = "done",
                             !.resp = QuotaDenied(proc[p].plan, urec)])
    ELSE Set(p, [proc[p] EXCEPT !.urec = urec, !.pc = "body"])

StartGated(p) ==
    /\ proc[p].pc \in {"idle", "done"}
    /\ budget > 0
    /\ budget' = budget - 1
    /\ Set(p, [Idle EXCEPT !.kind = "gate", !.pc = "sel_sub"])
    /\ UNCHANGED <<subs, usage, today, faults, hist>>

(* handle_period_rollover's test on the record just fetched *)
PeriodExpired(sub) == today > strptime(sub.current_period_end)

GateSelSub(p) ==
    /\ proc[p].kind = "gate" /\ proc[p].pc = "sel_sub"
    /\ LET rec == maybe_single(SubsOfUser(uid))
       IN  IF rec.id < 0 THEN Done(p, Resp(500, "gate"))
           ELSE IF IsRow(rec)
           THEN Set(p, [proc[p] EXCEPT !.sub = rec,
                          !.pc = IF PeriodExpired(rec) THEN "roll_upd" ELSE "resel_sub"])
           ELSE Set(p, [proc[p] EXCEPT !.pc = "ins_sub"])
    /\ UNCHANGED <<subs, usage, today, budget, faults, hist>>

RolledOverFromRow(r, sub) ==
    LET np == get_next_period(strptime(r.current_period_end))
    IN  [r EXCEPT !.current_period_start = str(np[1]),
                  !.current_period_end = str(np[2])]

(* handle_period_rollover: the keyed update of the period *)
RolledOver(r, sub) ==
    LET np == get_next_period(strptime(sub.current_period_end))
    IN  [r EXCEPT !.current_period_start = str(np[1]),
                  !.current_period_end = str(np[2])]

GateRollUpd(p) ==
    /\ proc[p].kind = "gate" /\ proc[p].pc = "roll_upd"
    /\ LET sub == proc[p].sub
           hit == { r \in subs : r.id = sub.id }
       IN  /\ subs' = (subs \ hit) \cup { RolledOver(r, sub) : r \in hit }
           /\ IF hit = {} THEN Done(p, Resp(500, "gate"))
              ELSE Set(p, [proc[p] EXCEPT !.pc = "resel_sub"])
    /\ UNCHANGED <<usage, today, budget, faults, hist>>

GateReselSub(p) ==
    /\ proc[p].kind = "gate" /\ proc[p].pc = "resel_sub"
    /\ LET rec == maybe_single(SubsOfUser(uid))
       IN  IF rec.id < 0 THEN Done(p, Resp(500, "gate"))
           ELSE IF IsRow(rec)
           THEN Set(p, [proc[p] EXCEPT !.sub = rec, !.pc = "sel_plan"])
           ELSE Set(p, [proc[p] EXCEPT !.sub = NoRow, !.pc = "ins_sub"])
    /\ UNCHANGED <<subs, usage, today, budget, faults, hist>>

GateInsSub(p) ==
    /\ proc[p].kind = "gate" /\ proc[p].pc = "ins_sub"
    /\ LET row == NewSubRow(uid, FREE_PLAN_ID, "free", "none", "none",
                            get_first_day_of_month(today),
                            get_last_day_of_month(today))
       IN  IF SubKeyTaken(uid)
           THEN /\ Done(p, Resp(500, "gate"))
                /\ UNCHANGED subs
           ELSE /\ subs' = subs \cup {row}
                /\ Set(p, [proc[p] EXCEPT !.sub = row, !.pc = "sel_plan"])
    /\ UNCHANGED <<usage, today, budget, faults, hist>>

GateSelPlan(p) ==
    /\ proc[p].kind = "gate" /\ proc[p].pc = "sel_plan"
    /\ LET found == { pl \in Plans : pl.id = proc[p].sub.plan_id }
       IN  IF found = {} THEN Done(p, Resp(500, "gate"))
           ELSE Set(p, [proc[p] EXCEPT !.plan = CHOOSE pl \in found : TRUE,
                                       !.pc = "sel_usage"])
    /\ UNCHANGED <<subs, usage, today, budget, faults, hist>>

GateSelUsage(p) ==
    /\ proc[p].kind = "gate" /\ proc[p].pc = "sel_usage"
    /\ LET sub == proc[p].sub
           rec == maybe_single(UsageOf(uid, sub.current_period_start,
                                       sub.current_period_end))
       IN  IF rec.id < 0 THEN Done(p, Resp(500, "gate"))
           ELSE IF IsRow(rec) THEN QuotaTest(p, rec)
           ELSE Set(p, [proc[p] EXCEPT !.pc = "ins_usage"])
    /\ UNCHANGED <<subs, usage, today, budget, faults, hist>>

GateInsUsage(p) ==
    /\ proc[p].kind = "gate" /\ proc[p].pc = "ins_usage"
    /\ LET sub == proc[p].sub
           row == NewUsageRow(uid, sub.plan_id, sub.current_period_start,
                              sub.current_period_end, 0)
       IN  IF UsageKeyTaken(uid, sub.current_period_start, sub.current_period_end)
           THEN /\ Done(p, Resp(500, "gate"))
                /\ UNCHANGED usage
           ELSE /\ usage' = usage \cup {row}
                /\ QuotaTest(p, row)
    /\ UNCHANGED <<subs, today, budget, faults, hist>>

(* Step 6: the wrapped route function; its status code is its own affair *)
BodyStatuses == {200, 299, 300, 500}

Is2xxInclusive(code) == 200 <= code /\ code <= 300

Is2xx(code) == 200 <= code /\ code < 300

GateBody(p) ==
    /\ proc[p].kind = "gate" /\ proc[p].pc = "body"
    /\ \E code \in BodyStatuses :
         /\ IF Is2xx(code)
            THEN Set(p, [proc[p] EXCEPT !.invoked = TRUE, !.code = code,
                                        !.pc = "commit"])
            ELSE Set(p, [Idle EXCEPT !.kind = "gate", !.invoked = TRUE,
                                     !.plan = proc[p].plan, !.urec = proc[p].urec,
                                     !.pc = "done", !.resp = Resp(code, "body")])
         /\ hist' = [hist EXCEPT !.ok2xx = @ + (IF Is2xx(code) THEN 1 ELSE 0)]
    /\ UNCHANGED <<subs, usage, today, budget, faults>>

(* Step 7: the keyed update writes the value computed before the body ran *)
Committed(r, urec) ==
    [r EXCEPT !.resume_count = current_usage(urec) + increment_by]

GateCommit(p) ==
    /\ proc[p].kind = "gate" /\ proc[p].pc = "commit"
    /\ LET urec == proc[p].urec
           hit == { r \in usage : r.id = urec.id }
       IN  usage' = (usage \ hit) \cup { Committed(r, urec) : r \in hit }
    /\ Done(p, Resp(proc[p].code, "body"))
    /\ UNCHANGED <<subs, today, budget, faults, hist>>

(* Store failures.  A store call of the pre-check can come back empty
   ("none": the response object or its data is missing), raise an APIError
   whose message says 'Missing response', raise another APIError, or raise
   some other exception (the HTTP client's). *)
FaultKinds == {"none", "api_missing", "api", "other"}

PreCheckPcs ==
    {"sel_sub", "roll_upd", "resel_sub", "ins_sub", "sel_plan", "sel_usage",
     "ins_usage"}

PreCheckFailureNotFound(pc, kind) ==
    IF kind = "none" THEN Resp(404, "gate") ELSE Resp(500, "gate")

(* the return statement each failure of the pre-check ends in *)
PreCheckFailure(pc, kind) ==
    IF kind = "api_missing" THEN Resp(503, "gate")
    ELSE IF kind = "none" /\ pc \in {"sel_sub", "resel_sub", "sel_usage"}
    THEN Resp(503, "gate")
    ELSE Resp(500, "gate")

GateFault(p) ==
    /\ proc[p].kind = "gate" /\ proc[p].pc \in PreCheckPcs
    /\ faults > 0
    /\ faults' = faults - 1
    /\ \E kind \in FaultKinds : Done(p, PreCheckFailure(proc[p].pc, kind))
    /\ UNCHANGED <<subs, usage, today, budget, hist>>

(* Step 7 catches APIError only; anything else leaves the decorator as an
   unhandled exception, which the framework answers with a 500 *)
CommitFailure(code, kind) ==
    IF kind = "api" THEN Resp(code, "body") ELSE Resp(500, "server")

GateCommitFault(p) ==
    /\ proc[p].kind = "gate" /\ proc[p].pc = "commit"
    /\ faults > 0
    /\ faults' = faults - 1
    /\ \E kind \in {"api", "other"} : Done(p, CommitFailure(proc[p].code, kind))
    /\ UNCHANGED <<subs, usage, today, budget, hist>>

----------------------------------------------------------------------------
(* get_subscription_status: GET /subscription/status *)

StartStatus(p) ==
    /\ proc[p].pc \in {"idle", "done"}
    /\ budget > 0
    /\ budget' = budget - 1
    /\ Set(p, [Idle EXCEPT !.kind = "status", !.pc = "st_sel"])
    /\ UNCHANGED <<subs, usage, today, faults, hist>>

(* With a row present the handler only reads (plan, usage) and answers 200;
   lines 82-89 are read at the depth of the `if` they follow. *)
StatusSelSub(p) ==
    /\ proc[p].kind = "status" /\ proc[p].pc = "st_sel"
    /\ LET rec == maybe_single(SubsOfUser(uid))
       IN  IF rec.id < 0 THEN Done(p, Resp(500, "status"))
           ELSE IF IsRow(rec) THEN Done(p, Resp(200, "status"))
           ELSE Set(p, [proc[p] EXCEPT !.pc = "st_ups_sub",
                          !.ps = get_first_day_of_month(today),
                          !.pe = get_last_day_of_month(today)])
    /\ UNCHANGED <<subs, usage, today, budget, faults, hist>>

InsertSubBlind(u, plan, status, ps, pe) ==
    subs \cup { NewSubRow(u, plan, status, "none", "none", ps, pe) }

(* upsert(..., on_conflict='user_id') *)
UpsertSub(u, plan, status, ps, pe) ==
    IF SubKeyTaken(u)
    THEN { IF r.user_id = u
           THEN [r EXCEPT !.plan_id = plan, !.status = status,
                          !.current_period_start = str(ps),
                          !.current_period_end = str(pe)]
           ELSE r : r \in subs }
    ELSE subs \cup { NewSubRow(u, plan, status, "none", "none", ps, pe) }

StatusUpsertSub(p) ==
    /\ proc[p].kind = "status" /\ proc[p].pc = "st_ups_sub"
    /\ subs' = UpsertSub(uid, FREE_PLAN_ID, "active", proc[p].ps, proc[p].pe)
    /\ Set(p, [proc[p] EXCEPT !.pc = "st_ups_usage"])
    /\ UNCHANGED <<usage, today, budget, faults, hist>>

(* upsert(..., on_conflict='user_id,period_start,period_end') with the three
   counters in the payload: an existing row gets them overwritten *)
UpsertUsageZero(u, plan, ps, pe) ==
    IF UsageKeyTaken(u, ps, pe)
    THEN { IF r \in UsageOf(u, ps, pe)
           THEN [r EXCEPT !.plan_id = plan, !.resume_count = 0]
           ELSE r : r \in usage }
    ELSE usage \cup { NewUsageRow(u, plan, ps, pe, 0) }

StatusUpsertUsage(p) ==
    /\ proc[p].kind = "status" /\ proc[p].pc = "st_ups_usage"
    /\ usage' = UpsertUsageZero(uid, FREE_PLAN_ID, str(proc[p].ps), str(proc[p].pe))
    /\ Done(p, Resp(200, "status"))
    /\ UNCHANGED <<subs, today, budget, faults, hist>>

Status(p) ==
    \/ StartStatus(p)
    \/ StatusSelSub(p)
    \/ StatusUpsertSub(p)
    \/ StatusUpsertUsage(p)

----------------------------------------------------------------------------
(* stripe_webhook: POST /subscription/stripe/webhook *)

(* the billing periods an invoice of the payment provider can carry *)
InvoicePeriods == { <<MkDate(2024, 1, 15), MkDate(2024, 2, 15)>> }

(* a later checkout of the same user, with the provider's new customer and
   subscription *)
LateCheckouts ==
    { [type |-> "checkout.session.completed", client_reference_id |-> uid,
       customer |-> "cus_2", subscription |-> "sub_2"] }

Events ==
    { [type |-> "checkout.session.completed", client_reference_id |-> u,
       customer |-> "cus_1", subscription |-> "sub_1"] : u \in {uid, "none"} }
    \cup
    { [type |-> "invoice.payment_succeeded", customer |-> c,
       subscription |-> "sub_1", period_start |-> per[1], period_end |-> per[2]] :
         c \in {"cus_1", "cus_9"}, per \in InvoicePeriods }
    \cup
    { [type |-> "invoice.payment_failed", subscription |-> "sub_1"] }
    \cup
    { [type |-> "customer.subscription.deleted", customer |-> c] :
         c \in {"cus_1", "cus_9"} }

(* what stripe.Subscription.retrieve answers for the session's subscription:
   the provider's billing period, or an exception *)
StripeSubs ==
    { NoStripeSub,
      [retrieved |-> TRUE, current_period_start |-> MkDate(2024, 1, 31),
       current_period_end |-> MkDate(2024, 2, 29)] }

(* the period of checkout.session.completed: the try block reads the
   provider's period, the handler logs a failure, and the two assignments that
   follow the try statement run on either path *)
checkout_period(stripe_sub, day) ==
    LET in_try == IF stripe_sub.retrieved
                  THEN <<stripe_sub.current_period_start,
                         stripe_sub.current_period_end>>
                  ELSE <<0, 0>>
        period_start == day
        period_end == get_last_day_of_month(period_start)
    IN  <<period_start, period_end>>

SignatureUnchecked(sig_ok) == TRUE

(* stripe.Webhook.construct_event: raises unless the signature verifies *)
SignatureVerified(sig_ok) == sig_ok

StartEvent(p, events) ==
    /\ budget' = budget - 1
    /\ \E configured \in BOOLEAN, sig_ok \in BOOLEAN, ev \in events,
          stripe_sub \in StripeSubs :
         LET me == [Idle EXCEPT !.kind = "webhook", !.ev = ev, !.sig_ok = sig_ok]
             out == [Idle EXCEPT !.kind = "webhook", !.sig_ok = sig_ok, !.pc = "done"]
         IN  IF ~configured
             THEN Set(p, [out EXCEPT !.resp = Resp(503, "config")])
             ELSE IF ~SignatureVerified(sig_ok)
             THEN Set(p, [out EXCEPT !.resp = Resp(400, "signature")])
             ELSE IF ev.type = "checkout.session.completed"
             THEN IF ev.client_reference_id = "none"
                  THEN Set(p, [out EXCEPT !.resp = Resp(200, "webhook")])
                  ELSE Set(p, [me EXCEPT !.pc = "co_sel",
                                 !.stripe_sub = stripe_sub,
                                 !.ps = checkout_period(stripe_sub, today)[1],
                                 !.pe = checkout_period(stripe_sub, today)[2]])
             ELSE IF ev.type = "invoice.payment_succeeded"
             THEN Set(p, [me EXCEPT !.pc = "inv_sel"])
             ELSE IF ev.type = "invoice.payment_failed"
             THEN Set(p, [me EXCEPT !.pc = "pf_upd"])
             ELSE Set(p, [me EXCEPT !.pc = "del_sel"])
    /\ UNCHANGED <<subs, usage, today, faults, hist>>

StartWebhook(p) ==
    /\ proc[p].pc \in {"idle", "done"}
    /\ budget > 0
    /\ StartEvent(p, Events)

StartLateCheckout(p) ==
    /\ proc[p].pc \in {"idle", "done"}
    /\ budget > 0
    /\ StartEvent(p, LateCheckouts)

(* checkout.session.completed *)
CheckoutSel(p) ==
    /\ proc[p].kind = "webhook" /\ proc[p].pc = "co_sel"
    /\ \E res \in NoRowResults :
         LET rec == maybe_single(SubsOfUser(proc[p].ev.client_reference_id))
         IN  IF rec.id < 0 \/ (~IsRow(rec) /\ res = "no_response")
             THEN Done(p, Resp(500, "server"))
             ELSE Set(p, [proc[p] EXCEPT !.sub = rec, !.pc = "co_write"])
    /\ UNCHANGED <<subs, usage, today, budget, faults, hist>>

subscription_data_partial(r, ev, ps, pe) ==
    [r EXCEPT !.plan_id = paid_plan_id,
              !.stripe_customer_id = ev.customer,
              !.current_period_start = str(ps),
              !.current_period_end = str(pe)]

subscription_data(r, ev, ps, pe) ==
    [r EXCEPT !.plan_id = paid_plan_id, !.status = "active",
              !.stripe_subscription_id = ev.subscription,
              !.stripe_customer_id = ev.customer,
              !.current_period_start = str(ps),
              !.current_period_end = str(pe),
              !.user_id = ev.client_reference_id]

CheckoutWrite(p) ==
    /\ proc[p].kind = "webhook" /\ proc[p].pc = "co_write"
    /\ LET ev == proc[p].ev
           u == ev.client_reference_id
           hit == SubsOfUser(u)
           row == NewSubRow(u, paid_plan_id, "active", ev.customer,
                            ev.subscription, proc[p].ps, proc[p].pe)
       IN  IF IsRow(proc[p].sub)
           THEN /\ subs' = (subs \ hit) \cup
                      { subscription_data(r, ev, proc[p].ps, proc[p].pe) : r \in hit }
                /\ IF hit = {} THEN Done(p, Resp(200, "webhook"))
                   ELSE Set(p, [proc[p] EXCEPT !.pc = "co_usage"])
           ELSE IF SubKeyTaken(u)
           THEN /\ Done(p, Resp(500, "server"))
                /\ UNCHANGED subs
           ELSE /\ subs' = subs \cup {row}
                /\ Set(p, [proc[p] EXCEPT !.pc = "co_usage"])
    /\ UNCHANGED <<usage, today, budget, faults, hist>>

(* upsert(..., on_conflict='user_id,period_start,period_end') without the
   counters in the payload: an existing row keeps them *)
UpsertUsagePlan(u, plan, ps, pe) ==
    IF UsageKeyTaken(u, ps, pe)
    THEN { IF r \in UsageOf(u, ps, pe) THEN [r EXCEPT !.plan_id = plan] ELSE r :
             r \in usage }
    ELSE usage \cup { NewUsageRow(u, plan, ps, pe, 0) }

CheckoutUsage(p) ==
    /\ proc[p].kind = "webhook" /\ proc[p].pc = "co_usage"
    /\ usage' = UpsertUsagePlan(proc[p].ev.client_reference_id, paid_plan_id,
                                str(proc[p].ps), str(proc[p].pe))
    /\ Done(p, Resp(200, "webhook"))
    /\ UNCHANGED <<subs, today, budget, faults, hist>>

(* invoice.payment_succeeded *)
SubsOfCustomer(c) == { r \in subs : r.stripe_customer_id = c }

InvoiceSel(p) ==
    /\ proc[p].kind = "webhook" /\ proc[p].pc = "inv_sel"
    /\ LET found == SubsOfCustomer(proc[p].ev.customer)
       IN  IF Cardinality(found) # 1 THEN Done(p, Resp(500, "server"))
           ELSE Set(p, [proc[p] EXCEPT !.sub = CHOOSE r \in found : TRUE,
                                       !.pc = "inv_upd"])
    /\ UNCHANGED <<subs, usage, today, budget, faults, hist>>

InvoiceApplied(r, ev) ==
    [r EXCEPT !.current_period_start = str(ev.period_start),
              !.current_period_end = str(ev.period_end),
              !.stripe_subscription_id = ev.subscription,
              !.status = "active"]

InvoiceUpd(p) ==
    /\ proc[p].kind = "webhook" /\ proc[p].pc = "inv_upd"
    /\ LET hit == { r \in subs : r.id = proc[p].sub.id }
       IN  subs' = (subs \ hit) \cup { InvoiceApplied(r, proc[p].ev) : r \in hit }
    /\ Set(p, [proc[p] EXCEPT !.pc = "inv_usage"])
    /\ UNCHANGED <<usage, today, budget, faults, hist>>

InvoiceUsage(p) ==
    /\ proc[p].kind = "webhook" /\ proc[p].pc = "inv_usage"
    /\ LET ev == proc[p].ev
           u == proc[p].sub.user_id
       IN  IF UsageKeyTaken(u, str(ev.period_start), str(ev.period_end))
           THEN /\ Done(p, Resp(500, "server"))
                /\ UNCHANGED usage
           ELSE /\ usage' = usage \cup
                      { NewUsageRow(u, paid_plan_id, str(ev.period_start),
                                    str(ev.period_end), 0) }
                /\ Done(p, Resp(200, "webhook"))
    /\ UNCHANGED <<subs, today, budget, faults, hist>>

(* invoice.payment_failed *)
PaymentFailedUpd(p) ==
    /\ proc[p].kind = "webhook" /\ proc[p].pc = "pf_upd"
    /\ subs' = { IF r.stripe_subscription_id = proc[p].ev.subscription
                 THEN [r EXCEPT !.status = "past_due"] ELSE r : r \in subs }
    /\ Done(p, Resp(200, "webhook"))
    /\ UNCHANGED <<usage, today, budget, faults, hist>>

(* customer.subscription.deleted *)
DeletedSel(p) ==
    /\ proc[p].kind = "webhook" /\ proc[p].pc = "del_sel"
    /\ \E res \in NoRowResults :
         LET rec == maybe_single(SubsOfCustomer(proc[p].ev.customer))
         IN  IF rec.id < 0 \/ (~IsRow(rec) /\ res = "no_response")
             THEN Done(p, Resp(500, "server"))
             ELSE IF IsRow(rec)
             THEN Set(p, [proc[p] EXCEPT !.sub = rec, !.pc = "del_upd",
                            !.ps = get_first_day_of_month(today),
                            !.pe = get_last_day_of_month(today)])
             ELSE Done(p, Resp(200, "webhook"))
    /\ UNCHANGED <<subs, usage, today, budget, faults, hist>>

DowngradedKeepsPlan(r, ps, pe) ==
    [r EXCEPT !.stripe_subscription_id = "none", !.status = "active",
              !.current_period_start = str(ps), !.current_period_end = str(pe)]

Downgraded(r, ps, pe) ==
    [r EXCEPT !.plan_id = FREE_PLAN_ID, !.stripe_subscription_id = "none",
              !.status = "active",
              !.current_period_start = str(ps), !.current_period_end = str(pe)]

DeletedUpd(p) ==
    /\ proc[p].kind = "webhook" /\ proc[p].pc = "del_upd"
    /\ LET hit == { r \in subs : r.id = proc[p].sub.id }
       IN  subs' = (subs \ hit) \cup
               { Downgraded(r, proc[p].ps, proc[p].pe) : r \in hit }
    /\ Done(p, Resp(200, "webhook"))
    /\ UNCHANGED <<usage, today, budget, faults, hist>>

Webhook(p) ==
    \/ StartWebhook(p)
    \/ CheckoutSel(p)
    \/ CheckoutWrite(p)
    \/ CheckoutUsage(p)
    \/ InvoiceSel(p)
    \/ InvoiceUpd(p)
    \/ InvoiceUsage(p)
    \/ PaymentFailedUpd(p)
    \/ DeletedSel(p)
    \/ DeletedUpd(p)

----------------------------------------------------------------------------
(* require_authentication: the decorator in front of a protected route *)

Chars == {"a", "."}

(* the text after "Bearer " *)
Tokens == UNION { [1..n -> Chars] : n \in 0..MaxTokenLen }

Headers ==
    {NoHeader}
    \cup { [scheme |-> sch, token |-> t] : sch \in {"Basic", "Bearer"}, t \in Tokens }

RECURSIVE split(_, _)
(* str.split(sep): the pieces between the separators, empty ones included *)
split(s, sep) ==
    IF \A i \in 1..Len(s) : s[i] # sep THEN <<s>>
    ELSE LET i == CHOOSE k \in 1..Len(s) :
                      s[k] = sep /\ \A j \in 1..(k - 1) : s[j] # sep
         IN  <<SubSeq(s, 1, i - 1)>> \o split(SubSeq(s, i + 1, Len(s)), sep)

token_format_lax(jwt_token) ==
    ~(jwt_token = <<>> \/ Len(split(jwt_token, ".")) < 3)

(* not (not jwt_token or len(jwt_token.split(".")) != 3) *)
token_format_ok(jwt_token) ==
    ~(jwt_token = <<>> \/ Len(split(jwt_token, ".")) # 3)

StartAuth(p) ==
    /\ proc[p].pc \in {"idle", "done"}
    /\ budget > 0
    /\ budget' = budget - 1
    /\ \E method \in {"OPTIONS", "POST"}, auth_header \in Headers :
         LET me == [Idle EXCEPT !.kind = "auth", !.auth = auth_header]
             out == [me EXCEPT !.pc = "done"]
         IN  IF method = "OPTIONS"
             THEN Set(p, [Idle EXCEPT !.kind = "auth", !.pc = "done",
                                      !.resp = Resp(200, "preflight")])
             ELSE IF auth_header.scheme # "Bearer"
             THEN Set(p, [out EXCEPT !.resp = Resp(401, "header")])
             ELSE IF ~token_format_ok(auth_header.token)
             THEN Set(p, [out EXCEPT !.resp = Resp(401, "token")])
             ELSE Set(p, [me EXCEPT !.pc = "get_user"])
    /\ UNCHANGED <<subs, usage, today, faults, hist>>

(* status_code = getattr(e, 'status', 401); 0 stands for no such attribute *)
APIErrorStatuses == {0, 503}

(* extensions.supabase.auth.get_user(jwt_token), then the wrapped route: a
   metered one, which starts with its subscription lookup *)
AuthGetUser(p) ==
    /\ proc[p].kind = "auth" /\ proc[p].pc = "get_user"
    /\ \E outcome \in {"user", "no_user", "AuthApiError", "APIError", "Exception"},
          st \in APIErrorStatuses :
         IF outcome = "user"
         THEN Set(p, [Idle EXCEPT !.kind = "gate", !.pc = "sel_sub"])
         ELSE IF outcome = "AuthApiError"
         THEN Done(p, Resp(401, "auth"))
         ELSE IF outcome = "APIError"
         THEN Done(p, Resp(IF st = 0 THEN 401 ELSE st, "auth"))
         ELSE Done(p, Resp(500, "auth"))
    /\ UNCHANGED <<subs, usage, today, budget, faults, hist>>

----------------------------------------------------------------------------
(* The clock *)

DayPasses ==
    /\ \E d \in Days : d > today /\ today' = d
    /\ UNCHANGED <<subs, usage, proc, budget, faults, hist>>

----------------------------------------------------------------------------

FirstDay == MkDate(2024, 1, 31)

Init ==
    /\ today = FirstDay
    /\ subs = {}
    /\ usage = {}
    /\ proc = [p \in Procs |-> Idle]
    /\ budget = MaxRequests
    /\ faults = 0
    /\ hist = [ok2xx |-> 0]

Gate(p) ==
    \/ StartGated(p)
    \/ GateSelSub(p)
    \/ GateRollUpd(p)
    \/ GateReselSub(p)
    \/ GateInsSub(p)
    \/ GateSelPlan(p)
    \/ GateSelUsage(p)
    \/ GateInsUsage(p)
    \/ GateBody(p)
    \/ GateCommit(p)

Next ==
    \/ \E p \in Procs : Gate(p)
    \/ \E p \in Procs : Status(p)
    \/ \E p \in Procs : Webhook(p)
    \/ DayPasses

Spec == Init /\ [][Next]_vars

(* Gated calls alone, with the store allowed to fail *)
InitGate ==
    /\ today = FirstDay
    /\ subs = {}
    /\ usage = {}
    /\ proc = [p \in Procs |-> Idle]
    /\ budget = MaxRequests
    /\ faults = MaxFaults
    /\ hist = [ok2xx |-> 0]

NextGate ==
    \/ \E p \in Procs : Gate(p)
    \/ \E p \in Procs : GateFault(p)
    \/ \E p \in Procs : GateCommitFault(p)
    \/ DayPasses

SpecGate == InitGate /\ [][NextGate]_vars

(* One caller: every request returns before the next one arrives *)
InitSeq ==
    /\ today = FirstDay
    /\ subs = {}
    /\ usage = {}
    /\ proc = [p \in Procs |-> Idle]
    /\ budget = MaxSeqRequests
    /\ faults = 0
    /\ hist = [ok2xx |-> 0]

NextSeq ==
    \/ Gate(1)
    \/ Status(1)
    \/ Webhook(1)
    \/ DayPasses

SpecSeq == InitSeq /\ [][NextSeq]_vars

(* Deliveries of checkout.session.completed alone: the provider delivers an
   event at least once, and retries it for days *)
StartCheckout(p) ==
    /\ StartWebhook(p)
    /\ proc'[p].pc = "co_sel"

NextReplay ==
    \/ \E p \in Procs : StartCheckout(p)
    \/ \E p \in Procs : CheckoutSel(p)
    \/ \E p \in Procs : CheckoutWrite(p)
    \/ \E p \in Procs : CheckoutUsage(p)
    \/ DayPasses

SpecReplay == Init /\ [][NextReplay]_vars

(* Webhook deliveries alone, a second checkout of the user among them *)
NextLate ==
    \/ \E p \in Procs : StartLateCheckout(p)
    \/ \E p \in Procs : Webhook(p)
    \/ DayPasses

SpecLate == Init /\ [][NextLate]_vars

(* One caller of a protected metered route *)
NextAuth ==
    \/ StartAuth(1)
    \/ AuthGetUser(1)
    \/ Gate(1)
    \/ DayPasses

SpecAuth == Init /\ [][NextAuth]_vars

(* Two gated calls of a user whose subscription carries any period end of
   January or February 2024 (an invoice writes the provider's dates) and a
   period that has begun, on a day of the clock that does not change while
   they run *)
EndDates ==
    { MkDate(2024, 1, d) : d \in 1..31 } \cup { MkDate(2024, 2, d) : d \in 1..29 }

InitRoll ==
    /\ today \in Days
    /\ \E d \in EndDates :
         /\ get_first_day_of_month(d) <= today
         /\ subs = { [id |-> 1, user_id |-> uid, plan_id |-> paid_plan_id,
                     status |-> "active", stripe_customer_id |-> "cus_1",
                     stripe_subscription_id |-> "sub_1",
                     current_period_start |-> str(get_first_day_of_month(d)),
                     current_period_end |-> str(d)] }
    /\ usage = {}
    /\ proc = [p \in Procs |-> Idle]
    /\ budget = 2
    /\ faults = 0
    /\ hist = [ok2xx |-> 0]

NextRoll ==
    \E p \in Procs :
        \/ StartGated(p)
        \/ GateSelSub(p)
        \/ GateRollUpd(p)
        \/ GateReselSub(p)
        \/ GateSelPlan(p)
        \/ GateSelUsage(p)
        \/ GateInsUsage(p)
        \/ GateBody(p)
        \/ GateCommit(p)

SpecRoll == InitRoll /\ [][NextRoll]_vars

----------------------------------------------------------------------------
(* cancel_subscription: POST /stripe/cancel-subscription *)

(* current_app.config.get("STRIPE_SECRET_KEY"): the deployment's setting, or
   None when the configuration has no such key *)
StripeKeys == {"sk_live", "missing"}

(* the handler starts by reading the key; without one it answers 503 *)
StartCancel(p) ==
    /\ proc[p].pc \in {"idle", "done"}
    /\ budget > 0
    /\ budget' = budget - 1
    /\ \E key \in StripeKeys :
         IF key = "missing"
         THEN Set(p, [Idle EXCEPT !.kind = "cancel", !.pc = "done",
                                  !.resp = Resp(503, "cancel")])
         ELSE Set(p, [Idle EXCEPT !.kind = "cancel", !.pc = "cn_sel"])
    /\ UNCHANGED <<subs, usage, today, faults, hist>>

(* .single(): the row; no row (or more than one) raises APIError *)
single(S) ==
    IF Cardinality(S) = 1 THEN CHOOSE r \in S : TRUE ELSE [id |-> -1]

(* status != 'active' or not stripe_sub_id *)
NotCancellable(rec) ==
    rec.status # "active" \/ rec.stripe_subscription_id = "none"

CancelSel(p) ==
    /\ proc[p].kind = "cancel" /\ proc[p].pc = "cn_sel"
    /\ LET rec == single(SubsOfUser(uid))
       IN  IF rec.id < 0 THEN Done(p, Resp(500, "cancel"))
           ELSE IF NotCancellable(rec) THEN Done(p, Resp(400, "cancel"))
           ELSE Set(p, [proc[p] EXCEPT !.sub = rec, !.pc = "cn_stripe"])
    /\ UNCHANGED <<subs, usage, today, budget, faults, hist>>

(* stripe.Subscription.retrieve(...) and subscription.save(): the provider
   accepts cancel_at_period_end, or one of the two calls raises *)
CancelStripe(p) ==
    /\ proc[p].kind = "cancel" /\ proc[p].pc = "cn_stripe"
    /\ \E accepted \in BOOLEAN :
         IF accepted
         THEN Set(p, [proc[p] EXCEPT !.pc = "cn_upd"])
         ELSE Done(p, Resp(500, "cancel"))
    /\ UNCHANGED <<subs, usage, today, budget, faults, hist>>

Canceling(r) == [r EXCEPT !.status = "canceling"]

(* update({'status': 'canceling', ...}).eq('user_id', uid) *)
CancelUpd(p) ==
    /\ proc[p].kind = "cancel" /\ proc[p].pc = "cn_upd"
    /\ subs' = (subs \ SubsOfUser(uid))
                 \cup { Canceling(r) : r \in SubsOfUser(uid) }
    /\ Done(p, Resp(200, "cancel"))
    /\ UNCHANGED <<usage, today, budget, faults, hist>>

Cancel(p) ==
    \/ StartCancel(p)
    \/ CancelSel(p)
    \/ CancelStripe(p)
    \/ CancelUpd(p)

(* Cancellation requests of the user among the provider's deliveries *)
NextCancel ==
    \/ \E p \in Procs : Cancel(p)
    \/ \E p \in Procs : Webhook(p)
    \/ DayPasses

SpecCancel == Init /\ [][NextCancel]_vars

----------------------------------------------------------------------------
(* POST /protected/resume-analyzer: check_and_use_feature with no
   require_authentication in front of it *)

(* flask.g as the set of attribute names set on it; nothing ran before the
   decorator, so the request's g carries none *)
g_unauthenticated == {}

hasattr_any(obj, name) == TRUE

hasattr(obj, name) == name \in obj

(* if not hasattr(g, 'user'): return ..., 500 *)
StartProtected(p) ==
    /\ proc[p].pc \in {"idle", "done"}
    /\ budget > 0
    /\ budget' = budget - 1
    /\ IF ~hasattr(g_unauthenticated, "user")
       THEN Set(p, [Idle EXCEPT !.kind = "protected", !.pc = "done",
                                !.resp = Resp(500, "gate")])
       ELSE Set(p, [Idle EXCEPT !.kind = "protected", !.pc = "sel_sub"])
    /\ UNCHANGED <<subs, usage, today, faults, hist>>

(* Calls of the unauthenticated route among gated calls of a signed-in user *)
NextProtected ==
    \/ \E p \in Procs : StartProtected(p)
    \/ \E p \in Procs : Gate(p)
    \/ DayPasses

SpecProtected == Init /\ [][NextProtected]_vars

----------------------------------------------------------------------------
(* Properties *)

(* every usage row that exists before the step has the same counter after it *)
CountersKept ==
    \A r \in usage : \E r2 \in usage' :
        r2.id = r.id /\ r2.resume_count = r.resume_count

(* the step is one of request p *)
StepOf(p) == proc'[p] # proc[p]

InPreCheck(p) == proc[p].kind = "gate" /\ proc[p].pc \in PreCheckPcs

(* C1: a gated call whose usage read plus the increment exceeds the plan's
   limit never invokes the wrapped operation, changes no usage counter, and
   answers 429 with exactly the limit and the usage it compared. *)
C1_TestedOver(p) ==
    /\ proc[p].kind = "gate"
    /\ IsRow(proc[p].urec)
    /\ proc[p].urec.resume_count + 1 > proc[p].plan.resume_limit_per_month

C1_Denied(p) ==
    /\ proc[p].pc = "done"
    /\ ~proc[p].invoked
    /\ proc[p].resp = [status |-> 429, by |-> "gate",
                       limit |-> proc[p].plan.resume_limit_per_month,
                       usage |-> proc[p].urec.resume_count]

C1_QuotaDenial ==
    /\ [](\A p \in Procs : C1_TestedOver(p) => C1_Denied(p))
    /\ [][\A p \in Procs : (InPreCheck(p) /\ StepOf(p)) => CountersKept]_vars

C1_Witness ==
    \E p \in Procs :
        /\ C1_TestedOver(p)
        /\ proc[p].resp.status = 429
        /\ proc[p].resp.usage > 0
        /\ \E r \in usage : r.id = proc[p].urec.id /\ r.resume_count = proc[p].resp.usage

(* C2: within one usage period and one plan, the gated calls whose wrapped
   operation ran and returned 2xx never outnumber the plan's limit. *)
C2_AtomicQuota ==
    (today = FirstDay /\ faults = MaxFaults) => hist.ok2xx <= FreeLimit

(* C3: once every gated call of the period has returned, and no commit write
   failed, the counter equals the increment times the number of calls whose
   wrapped operation returned 2xx. *)
Quiescent == \A p \in Procs : proc[p].pc \in {"idle", "done"}

C3_NoLostIncrement ==
    (Quiescent /\ today = FirstDay /\ faults = MaxFaults) =>
        /\ \A r \in usage : r.resume_count = hist.ok2xx * increment_by
        /\ hist.ok2xx > 0 => usage # {}

(* C4: a gated call whose wrapped operation returns a status outside
   200..299 changes no usage counter: it ends with the operation's response,
   and only the commit of a call whose operation returned 2xx writes one. *)
C4_FailedBodyKeepsCounters ==
    [][\A p \in Procs : (proc[p].kind = "gate" /\ StepOf(p)) =>
          /\ proc[p].pc = "body" =>
                /\ CountersKept
                /\ proc'[p].pc = "commit" => proc'[p].code \in 200..299
                /\ proc'[p].pc = "done" =>
                      /\ proc'[p].resp.status \notin 200..299
                      /\ proc'[p].resp.by = "body"
          /\ ~CountersKept =>
                /\ proc[p].pc = "commit"
                /\ proc[p].code \in 200..299]_vars

C4_Witness ==
    \E p \in Procs :
        /\ proc[p].kind = "gate" /\ proc[p].pc = "done"
        /\ proc[p].invoked
        /\ proc[p].resp.by = "body"
        /\ proc[p].resp.status = 300
        /\ proc[p].urec.resume_count + 1 <= proc[p].plan.resume_limit_per_month
        /\ \E r \in usage : r.id = proc[p].urec.id /\ r.resume_count = proc[p].urec.resume_count

(* the calendar of 2024, written out: an oracle for the month arithmetic *)
LastDay2024 == <<31, 29, 31, 30, 31, 30, 31, 31, 30, 31, 30, 31>>

OracleMonth(m) == << <<2024, m, 1>>, <<2024, m, LastDay2024[m]>> >>

PeriodOf(r) == <<r.current_period_start, r.current_period_end>>

(* C5: for a user without a Subscription row a gated call inserts exactly
   one row (free plan, status free, the current calendar month) and goes on
   to the plan and quota test; a concurrent gated call that also found no
   row leaves no second row. *)
C5_FreeProvisioning ==
    [][\A p \in Procs :
          (proc[p].kind = "gate" /\ proc[p].pc = "ins_sub" /\ StepOf(p)) =>
             IF SubsOfUser(uid) = {}
             THEN \E row \in subs' :
                    /\ subs' = subs \cup {row}
                    /\ row.user_id = uid
                    /\ row.plan_id = 1
                    /\ row.status = "free"
                    /\ PeriodOf(row) = OracleMonth(Month(today))
                    /\ proc'[p].pc = "sel_plan"
                    /\ proc'[p].sub = row
             ELSE /\ subs' = subs
                  /\ Cardinality(SubsOfUser(uid)) = 1]_vars

C5_Witness ==
    \E p, q \in Procs :
        /\ p # q
        /\ proc[p].kind = "gate" /\ proc[p].pc = "sel_plan"
        /\ proc[p].sub \in subs /\ proc[p].sub.status = "free"
        /\ proc[q].kind = "gate" /\ proc[q].pc = "ins_sub"

(* C6: under every interleaving of gated calls, status calls and webhooks
   the user has at most one Subscription row. *)
C6_OneSubscriptionPerUser == Cardinality(SubsOfUser(uid)) <= 1

C6_Witness ==
    \E p, q \in Procs :
        /\ p # q
        /\ proc[p].kind = "webhook" /\ proc[p].pc = "co_write"
        /\ ~IsRow(proc[p].sub)
        /\ proc[q].kind = "status" /\ proc[q].pc = "st_ups_usage"
        /\ Cardinality(SubsOfUser(uid)) = 1

(* C7: the rollover of an expired Subscription sets its period to the
   calendar month that follows the expired period, and changes no counter of
   an existing UsagePeriod; the call then meters against the UsagePeriod of
   the Subscription's period. *)
C7_RolloverToFollowingMonth ==
    /\ [](\A p \in Procs :
            (proc[p].kind = "gate" /\ proc[p].pc \in {"body", "commit"}) =>
                /\ proc[p].urec.period_start = proc[p].sub.current_period_start
                /\ proc[p].urec.period_end = proc[p].sub.current_period_end)
    /\ [][\A p \in Procs :
            (proc[p].kind = "gate" /\ proc[p].pc = "roll_upd" /\ StepOf(p)
               /\ proc'[p].pc = "resel_sub") =>
                /\ CountersKept
                /\ \A r \in subs' : r.id = proc[p].sub.id =>
                      PeriodOf(r) = OracleMonth(proc[p].sub.current_period_end[2] + 1)]_vars

(* C8: a failing store call of the pre-check ends the gated call with a 5xx
   before the wrapped operation runs and without a counter changing. *)
C8_PreCheckFailsClosed ==
    /\ [](\A p \in Procs :
            (proc[p].kind = "gate" /\ proc[p].pc = "done"
               /\ proc[p].resp.by = "gate" /\ proc[p].resp.status # 429) =>
                /\ proc[p].resp.status \in 500..599
                /\ ~proc[p].invoked)
    /\ [][\A p \in Procs :
            (InPreCheck(p) /\ StepOf(p) /\ faults' < faults) =>
                /\ proc'[p].pc = "done"
                /\ proc'[p].resp.status \in 500..599
                /\ ~proc'[p].invoked
                /\ usage' = usage]_vars

C8_Witness ==
    \E p \in Procs :
        /\ proc[p].kind = "gate" /\ proc[p].pc = "done"
        /\ proc[p].resp.status = 503
        /\ ~proc[p].invoked
        /\ faults < MaxFaults
        /\ subs # {}

(* C9: when the counter update after a 2xx fails, in whatever way, the
   caller still gets the wrapped operation's response and status code. *)
C9_CommitFailureAbsorbed ==
    [][\A p \in Procs :
          (proc[p].kind = "gate" /\ proc[p].pc = "commit" /\ StepOf(p)
             /\ faults' < faults) =>
              /\ proc'[p].resp.status = proc[p].code
              /\ proc'[p].resp.by = "body"]_vars

(* C10: a webhook request whose signature does not verify is answered 4xx
   (where the endpoint is configured at all), no event handler runs for it
   and no billing row is read or written. *)
C10_BadSignatureRejected ==
    /\ [](\A p \in Procs :
            (proc[p].kind = "webhook" /\ ~proc[p].sig_ok) =>
                /\ proc[p].pc = "done"
                /\ proc[p].resp.by # "config" => proc[p].resp.status \in 400..499)
    /\ [][\A p \in Procs :
            (StepOf(p) /\ proc'[p].kind = "webhook" /\ ~proc'[p].sig_ok) =>
                /\ proc[p].pc \in {"idle", "done"}
                /\ subs' = subs
                /\ usage' = usage]_vars

C10_Witness ==
    \E p \in Procs :
        /\ proc[p].kind = "webhook" /\ ~proc[p].sig_ok
        /\ proc[p].pc = "done"
        /\ proc[p].resp.status = 400
        /\ subs # {}

(* C11: a webhook event whose signature verified is answered 200 even when
   its handler hits an internal error (a store call raising, a lookup that
   finds no row); only a bad signature or payload gives a non-2xx answer. *)
C11_HandlerErrorsAcknowledged ==
    \A p \in Procs :
        (/\ proc[p].kind = "webhook" /\ proc[p].pc = "done"
         /\ proc[p].resp.by \notin {"config", "signature"}) =>
            proc[p].resp.status = 200

(* C12: checkout.session.completed writes the provider's billing period to
   the subscription and to the usage row whenever the provider's subscription
   was retrieved; the period computed from the local date (today to the last
   day of its month) is written only when the retrieval failed. *)
C12_Period(p) ==
    IF proc[p].stripe_sub.retrieved
    THEN <<str(proc[p].stripe_sub.current_period_start),
           str(proc[p].stripe_sub.current_period_end)>>
    ELSE <<str(proc[p].ps),
           <<Year(proc[p].ps), Month(proc[p].ps), LastDay2024[Month(proc[p].ps)]>> >>

C12_ProviderPeriodWritten ==
    [][\A p \in Procs :
          (proc[p].kind = "webhook" /\ StepOf(p)) =>
              /\ (proc[p].pc = "co_write" /\ proc'[p].pc = "co_usage") =>
                    \A r \in SubsOfUser(proc[p].ev.client_reference_id)' :
                        PeriodOf(r) = C12_Period(p)
              /\ proc[p].pc = "co_usage" =>
                    \E r \in usage' :
                        /\ r.user_id = proc[p].ev.client_reference_id
                        /\ <<r.period_start, r.period_end>> = C12_Period(p)]_vars

(* C13: a user who has used the free plan's limit (a further call is denied)
   and is then upgraded by checkout.session.completed has the next gated
   call tested against the paid plan's limit; it succeeds and leaves the usage
   of the current period at the free limit plus one. *)
C13_UsageOfCurrentPeriod ==
    { u.resume_count : u \in
        { u \in usage : \E r \in SubsOfUser(uid) :
            /\ u.user_id = uid
            /\ <<u.period_start, u.period_end>> = PeriodOf(r) } }

C13_UpgradeKeepsUsage ==
    (/\ today = FirstDay
     /\ Quiescent
     /\ hist.ok2xx = FreeLimit + 1
     /\ \E r \in SubsOfUser(uid) : r.plan_id = paid_plan_id
     /\ \E f \in usage :
          /\ <<f.period_start, f.period_end>> = OracleMonth(Month(FirstDay))
          /\ f.resume_count = FreeLimit) =>
        C13_UsageOfCurrentPeriod = {FreeLimit + 1}

(* C14: checkout.session.completed is idempotent: once one delivery of the
   event has been applied (its subscription row and usage row are written),
   a further delivery of the same event changes neither table. *)
C14_CheckoutIdempotent ==
    [][\A p \in Procs :
          (/\ proc[p].kind = "webhook" /\ StepOf(p)
           /\ subs # {} /\ usage # {}) =>
              /\ subs' = subs
              /\ usage' = usage]_vars

(* C15: invoice.payment_succeeded is idempotent: every delivery, the first
   or a repeated one, ends with the subscription on the invoice's period with
   status active, exactly one usage row for that period, and a 200 answer. *)
C15_InvoiceIdempotent ==
    [][\A p \in Procs :
          (/\ proc[p].kind = "webhook" /\ StepOf(p)
           /\ proc[p].pc = "inv_usage") =>
              LET ev == proc[p].ev
                  per == <<str(ev.period_start), str(ev.period_end)>>
              IN  /\ \A r \in SubsOfCustomer(ev.customer) :
                        PeriodOf(r) = per /\ r.status = "active"
                  /\ Cardinality({ u \in usage' :
                        /\ u.user_id = proc[p].sub.user_id
                        /\ <<u.period_start, u.period_end>> = per }) = 1
                  /\ proc'[p].resp.status = 200]_vars

(* the row the deleted handler selected, as the update leaves it; kept says
   whether the payment-customer reference is claimed to stay on the row *)
C16_DowngradedInPlace(p, kept) ==
    /\ Cardinality(subs') = Cardinality(subs)
    /\ \A r \in subs :
          IF r.id # proc[p].sub.id THEN r \in subs'
          ELSE \E r2 \in subs' :
                 /\ r2.id = r.id /\ r2.user_id = r.user_id
                 /\ r2.plan_id = 1
                 /\ r2.stripe_subscription_id = "none"
                 /\ r2.stripe_customer_id =
                        IF kept THEN r.stripe_customer_id ELSE "none"
                 /\ r2.status = "active"
                 /\ PeriodOf(r2) = <<str(proc[p].ps), str(proc[p].pe)>>

C16_DeletedStep(p) == proc[p].kind = "webhook" /\ StepOf(p)

(* the period the handler is about to write is the calendar month of today *)
C16_PeriodRead(p) ==
    (proc[p].pc = "del_sel" /\ proc'[p].pc = "del_upd") =>
        <<str(proc'[p].ps), str(proc'[p].pe)>> = OracleMonth(Month(today))

(* C16: customer.subscription.deleted for a customer that has a
   subscription leaves the row on the free plan, with both the
   payment-customer and the payment-subscription reference cleared and the
   period set to the current calendar month; the row is updated in place. *)
C16_DeletedClearsBothRefs ==
    [][\A p \in Procs : C16_DeletedStep(p) =>
          /\ C16_PeriodRead(p)
          /\ proc[p].pc = "del_upd" => C16_DowngradedInPlace(p, FALSE)]_vars

(* C16, amended: the same, except that only the payment-subscription
   reference is cleared; the payment-customer reference stays on the row. *)
C16_DeletedDowngradesInPlace ==
    [][\A p \in Procs : C16_DeletedStep(p) =>
          /\ C16_PeriodRead(p)
          /\ proc[p].pc = "del_upd" =>
                /\ C16_DowngradedInPlace(p, TRUE)
                /\ proc'[p].resp.status = 200]_vars

C16_Witness ==
    /\ \E p \in Procs :
          /\ proc[p].kind = "webhook" /\ proc[p].pc = "done"
          /\ proc[p].resp.status = 200
    /\ \E r \in subs :
          /\ r.plan_id = 1 /\ r.stripe_customer_id = "cus_1"
          /\ r.stripe_subscription_id = "none"
          /\ PeriodOf(r) \in { OracleMonth(m) : m \in 1..3 }

(* C17: customer.subscription.deleted for a customer reference that matches
   no subscription changes no row and is acknowledged with 200. *)
C17_UnmatchedDeletedIsNoOp ==
    [][\A p \in Procs :
          (/\ proc[p].kind = "webhook" /\ StepOf(p)
           /\ proc[p].pc = "del_sel"
           /\ \A r \in subs : r.stripe_customer_id # proc[p].ev.customer) =>
              /\ proc'[p].pc = "done"
              /\ proc'[p].resp.status = 200
              /\ subs' = subs
              /\ usage' = usage]_vars

(* C18: a checkout.session.completed applied to a subscription that an
   earlier invoice.payment_failed (or any other event) has marked leaves the
   row as the checkout dictates for every field it sets: status active, the
   paid plan, the checkout's customer and subscription references; no
   payment reference from before the checkout stays on the row. *)
C18_LateCheckoutWins ==
    [][\A p \in Procs :
          (/\ proc[p].kind = "webhook" /\ StepOf(p)
           /\ proc[p].pc = "co_write" /\ proc'[p].pc = "co_usage") =>
              LET ev == proc[p].ev
              IN  /\ SubsOfUser(ev.client_reference_id)' # {}
                  /\ \A r \in SubsOfUser(ev.client_reference_id)' :
                        /\ r.status = "active"
                        /\ r.plan_id = 2
                        /\ r.stripe_customer_id = ev.customer
                        /\ r.stripe_subscription_id = ev.subscription]_vars

C18_Witness ==
    \E p \in Procs :
        /\ proc[p].kind = "webhook" /\ proc[p].pc = "co_usage"
        /\ IsRow(proc[p].sub)
        /\ proc[p].sub.status = "past_due"
        /\ proc[p].sub.stripe_subscription_id = "sub_1"
        /\ proc[p].ev.subscription = "sub_2"
        /\ \A r \in subs :
              /\ r.status = "active"
              /\ r.stripe_subscription_id = "sub_2"
              /\ r.stripe_customer_id = "cus_2"

(* C19: historical usage is immutable: no step changes a counter of a usage
   row whose period ended before today. *)
C19_HistoricalUsageImmutable ==
    [][\A r \in usage :
          strptime(r.period_end) < today =>
              \E r2 \in usage' :
                  r2.id = r.id /\ r2.resume_count = r.resume_count]_vars

(* the number of dots in a token: three pieces are separated by two *)
C20_Dots(t) == Cardinality({ i \in 1..Len(t) : t[i] = "." })

C20_Malformed(p) ==
    /\ proc[p].kind = "auth"
    /\ proc[p].auth.scheme = "Bearer"
    /\ C20_Dots(proc[p].auth.token) # 2

(* C20: a request whose bearer token does not have the shape of three
   dot-separated segments is answered 401 in the step it arrives in: the
   identity provider is never called for it, and the protected handler, its
   quota check included, does not run. *)
C20_MalformedTokenRejected ==
    /\ [](\A p \in Procs : C20_Malformed(p) =>
            /\ proc[p].pc = "done"
            /\ proc[p].resp.status = 401
            /\ ~proc[p].invoked)
    /\ [][\A p \in Procs :
            (StepOf(p) /\ C20_Malformed(p)') =>
                /\ proc[p].pc \in {"idle", "done"}
                /\ subs' = subs
                /\ usage' = usage
                /\ hist' = hist]_vars

C20_Witness ==
    \E p \in Procs :
        /\ C20_Malformed(p)
        /\ Len(proc[p].auth.token) = MaxTokenLen
        /\ C20_Dots(proc[p].auth.token) = 3
        /\ proc[p].resp = Resp(401, "token")
        /\ usage # {}

(* the calendar month after the month of the date text s (a 2024 date) *)
FollowingMonth(s) == OracleMonth(s[2] + 1)

(* C21: for every expired period end d, the last day of its month or not,
   the rollover writes the period [first day of the calendar month following
   the month of d, last day of that month]. *)
C21_NextPeriodFollowsMonthOfEnd ==
    [][\A p \in Procs :
          (/\ proc[p].kind = "gate" /\ StepOf(p)
           /\ proc[p].pc = "roll_upd" /\ proc'[p].pc = "resel_sub") =>
              \A r \in subs' :
                  PeriodOf(r) = FollowingMonth(proc[p].sub.current_period_end)]_vars

(* C22: rollover is forward-only: an update made by handle_period_rollover
   never leaves the subscription with a period end earlier than the one the
   row had, and the period it writes is one whole calendar month. *)
C22_RolloverForwardOnly ==
    [][\A p \in Procs :
          (/\ proc[p].kind = "gate" /\ StepOf(p)
           /\ proc[p].pc = "roll_upd" /\ proc'[p].pc = "resel_sub") =>
              \A r \in subs : r.id = proc[p].sub.id =>
                  \E r2 \in subs' :
                      /\ r2.id = r.id
                      /\ strptime(r2.current_period_end) >=
                            strptime(r.current_period_end)
                      /\ PeriodOf(r2) \in { OracleMonth(m) : m \in 1..12 }]_vars

(* what one rollover makes of the period end text s (a 2024 date): the month
   of the day after it *)
C23_Single(s) ==
    IF s[3] = LastDay2024[s[2]] THEN OracleMonth(s[2] + 1) ELSE OracleMonth(s[2])

(* gated call p read a subscription that had expired and has not yet
   fetched it again *)
C23_ReadExpired(p) ==
    /\ proc[p].kind = "gate"
    /\ proc[p].pc \in {"roll_upd", "resel_sub"}
    /\ today > strptime(proc[p].sub.current_period_end)

C23_Metering(p) ==
    /\ proc[p].kind = "gate"
    /\ proc[p].pc \in {"sel_plan", "sel_usage", "ins_usage", "body", "commit"}

(* C23: two gated calls that read the same expired period and both perform
   the rollover leave the subscription with the period one rollover gives,
   in any interleaving, and both go on to meter against that period. *)
C23_ConcurrentRolloverConverges ==
    /\ [](\A p, q \in Procs :
            (/\ p # q /\ C23_ReadExpired(p) /\ C23_ReadExpired(q)
             /\ proc[p].sub = proc[q].sub
             /\ proc[p].pc = "resel_sub" /\ proc[q].pc = "resel_sub") =>
                \A r \in subs :
                    PeriodOf(r) = C23_Single(proc[p].sub.current_period_end))
    /\ [][\A p, q \in Procs :
            (/\ p # q /\ StepOf(p) /\ C23_ReadExpired(p)
             /\ proc[p].pc = "resel_sub"
             /\ \/ C23_ReadExpired(q) /\ proc[q].sub = proc[p].sub
                \/ C23_Metering(q) /\ PeriodOf(proc[q].sub) =
                                        C23_Single(proc[p].sub.current_period_end)) =>
                /\ proc'[p].pc = "sel_plan"
                /\ PeriodOf(proc'[p].sub) =
                      C23_Single(proc[p].sub.current_period_end)]_vars

C23_Witness ==
    \E p, q \in Procs :
        /\ p # q
        /\ C23_Metering(p) /\ C23_ReadExpired(q)
        /\ proc[q].pc = "resel_sub"
        /\ PeriodOf(proc[p].sub) = C23_Single(proc[q].sub.current_period_end)
        /\ proc[q].sub.current_period_end = <<2024, 1, 31>>
        /\ today = MkDate(2024, 3, 1)
        /\ \A r \in subs : PeriodOf(r) = OracleMonth(2)

(* C24: concurrent gated calls of a user whose period has no usage row
   leave exactly one row for (user, period start, period end); the call that
   loses the insert race goes on to its quota test with the existing row
   instead of answering with an error. *)
C24_UsageInsertRaceBenign ==
    [][\A p \in Procs :
          (proc[p].kind = "gate" /\ StepOf(p) /\ proc[p].pc = "ins_usage") =>
              /\ Cardinality({ r \in usage' :
                    /\ r.user_id = uid
                    /\ r.period_start = proc[p].sub.current_period_start
                    /\ r.period_end = proc[p].sub.current_period_end }) = 1
              /\ \/ proc'[p].pc = "body"
                 \/ proc'[p].pc = "done" /\ proc'[p].resp.status = 429]_vars

(* the monthly limit of the plan with the given id *)
C25_LimitOf(plan_id) == IF plan_id = 1 THEN FreeLimit ELSE PaidLimit

(* the step of gated call p that makes the quota test, decided against lim *)
C25_TestedAgainst(p, lim) ==
    LET u == proc'[p].urec.resume_count
    IN  /\ proc'[p].pc = "body" => u + 1 <= lim
        /\ (proc'[p].pc = "done" /\ proc'[p].resp.status = 429) =>
              /\ u + 1 > lim
              /\ proc'[p].resp.limit = lim

C25_TestStep(p) ==
    /\ proc[p].kind = "gate" /\ StepOf(p)
    /\ proc[p].pc \in {"sel_usage", "ins_usage"}
    /\ IsRow(proc'[p].urec)

(* C25: when the plan recorded on the usage row of the period differs from
   the subscription's current plan, the quota test uses the limit of the plan
   recorded on the usage row. *)
C25_SnapshotPlanLimit ==
    [][\A p \in Procs : C25_TestStep(p) =>
          C25_TestedAgainst(p, C25_LimitOf(proc'[p].urec.plan_id))]_vars

(* C25, amended: the quota test uses the limit of the plan of the
   subscription as the call fetched it, whatever plan the usage row records. *)
C25_SubscriptionPlanLimit ==
    [][\A p \in Procs : C25_TestStep(p) =>
          C25_TestedAgainst(p, C25_LimitOf(proc[p].sub.plan_id))]_vars

C25_Witness ==
    \E p \in Procs :
        /\ proc[p].kind = "gate" /\ proc[p].pc = "done"
        /\ proc[p].resp.status = 429
        /\ proc[p].resp.limit = FreeLimit
        /\ proc[p].urec.plan_id = 2
        /\ proc[p].urec.resume_count = FreeLimit
        /\ \A r \in subs : r.plan_id = 1

(* C26: a gated call that has passed its pre-check and is about to invoke
   the wrapped operation metered against a subscription period, and a usage
   row, that contain today, whatever state it started from, a subscription
   that expired more than a month ago included. *)
C26_TodayWithinMeteredPeriod ==
    \A p \in Procs :
        (proc[p].kind = "gate" /\ proc[p].pc = "body") =>
            /\ strptime(proc[p].sub.current_period_start) <= today
            /\ today <= strptime(proc[p].sub.current_period_end)
            /\ strptime(proc[p].urec.period_start) <= today
            /\ today <= strptime(proc[p].urec.period_end)

(* C27: no webhook event changes a consumption counter of a usage row that
   already exists; the only step that changes a counter of an existing row
   is the commit of a gated call after its wrapped operation succeeded. *)
C27_CountersChangedOnlyByCommit ==
    [][ ~CountersKept =>
          \E p \in Procs :
              /\ StepOf(p)
              /\ proc[p].kind = "gate" /\ proc[p].pc = "commit"
              /\ proc[p].code \in 200..299 ]_vars

(* C28: cancel_subscription changes the subscription only when its status is
   active and it carries a payment-subscription ref, and then only the
   status, to canceling; a request that finds anything else is answered 400
   and changes nothing. *)
C28_CancelRefusedWith400 ==
    [][ \A p \in Procs :
          StepOf(p) /\ proc'[p].kind = "cancel" =>
            /\ subs' # subs =>
                 \E r \in subs :
                    /\ r.user_id = uid
                    /\ r.status = "active"
                    /\ r.stripe_subscription_id # "none"
                    /\ subs' = (subs \ {r}) \cup { [r EXCEPT !.status = "canceling"] }
            /\ ( /\ proc'[p].pc = "done"
                 /\ ~ \E r \in subs :
                        /\ r.user_id = uid
                        /\ r.status = "active"
                        /\ r.stripe_subscription_id # "none" )
               => proc'[p].resp.status = 400 /\ subs' = subs ]_vars

(* C30: a subscription whose status cancel_subscription set to canceling is
   not returned to active by an invoice-paid event; a canceling row becomes
   active only when a subscription-deleted or a checkout-completed event is
   applied. *)
C30_CancelingSurvivesInvoice ==
    [][ \A r \in subs : \A r2 \in subs' :
          r.status = "canceling" /\ r2.id = r.id /\ r2.status = "active" =>
            \E p \in Procs :
                /\ StepOf(p)
                /\ proc[p].kind = "webhook"
                /\ proc[p].ev.type \in {"customer.subscription.deleted",
                                        "checkout.session.completed"} ]_vars

(* C29: a call of check_and_use_feature with no verified principal on the
   request is answered 500 at once: the wrapped operation is not invoked and
   no billing table is read or written. *)
C29_NoPrincipalNoMetering ==
    [][ \A p \in Procs :
          StepOf(p) /\ proc'[p].kind = "protected" =>
            /\ proc'[p].pc = "done"
            /\ proc'[p].resp.status = 500
            /\ ~proc'[p].invoked
            /\ subs' = subs /\ usage' = usage ]_vars

C29_Witness ==
    \E p \in Procs :
        /\ proc[p].kind = "protected" /\ proc[p].pc = "done"
        /\ proc[p].resp.status = 500
        /\ subs # {} /\ usage # {}

====
